---- MODULE Spec2Model ----
(***************************************************************************)
(* Model of src/main.py: the batch collection of device configurations     *)
(* (process_connection / get_switch_config / save_config_to_file) and the  *)
(* operator dialogue around it (main / execute_other_command).             *)
(*                                                                         *)
(* The netmiko session, the file system, the wall clock and the keyboard   *)
(* are the environment: each call into them is a nondeterministic choice   *)
(* over the results that call can have.                                    *)
(***************************************************************************)
EXTENDS Integers, Sequences, FiniteSets, TLC

(* ------------------------------ bounds --------------------------------- *)
\* longest device list the inventory supplies
MaxDevices == 2
\* the wall clock takes the values 0..MaxTime
MaxTime == 2
\* clock values per calendar day
TicksPerDay == 2
\* passes the operator may start from execute_other_command
MaxPasses == 1

(* --------------------------- value universes --------------------------- *)
\* Python's None
NoneVal == "None"

Hosts == {"10.0.0.1", "10.0.0.2"}

\* rows of the inventory, as load_devices_from_excel_conf returns them:
\* two rows share an address, one dialect is not in the table of
\* get_config_command, secret and description are present or absent
Profiles ==
    {[ip |-> "10.0.0.1", device_type |-> "huawei", secret |-> NoneVal,
      description |-> ""],
     [ip |-> "10.0.0.1", device_type |-> "made_up_os", secret |-> "enable",
      description |-> "core"],
     [ip |-> "10.0.0.2", device_type |-> "juniper_junos",
      secret |-> "enable", description |-> ""]}

DeviceLists == UNION {[1..n -> Profiles] : n \in 0..MaxDevices}

\* what conn.send_command can return
Outputs == {"", "cfg"}
\* what input() can return at the command prompt
CommandInputs == {"exit", "", "show version"}
\* what input() can return at a y/n prompt
ConfirmInputs == {"y", "Y", "n", ""}

\* exception classes the netmiko calls raise
ConnectErrors ==
    {"NetMikoTimeoutException", "NetMikoAuthenticationException", "Exception"}

ConfigStorage == "config_storage"
\* main, line 258
normal_path == "config_storage/normal"
\* mutant: execute_other_command writes where main does
other_dir_is_normal == normal_path

\* execute_other_command, line 227
other_dir == "config_storage/other"

(* ---------------------------- pure helpers ----------------------------- *)
\* truth value of a Python str-or-None
Truthy(x) == x /= NoneVal /\ x /= ""

\* str.lower() on the answers of ConfirmInputs
Lower(s) == IF s = "Y" THEN "y" ELSE s

\* strftime('%Y%m%d'): the calendar day of a clock value
Day(t) == t \div TicksPerDay

\* the keys of the table of get_config_command, lines 110-118
KnownDialects ==
    {"cisco_ios", "cisco_nxos", "huawei", "h3c", "hp_comware",
     "juniper_junos", "arista_eos", "fortinet", "paloalto_panos"}

\* mutant: commands.get(device_type) without a default
get_config_command_no_default(device_type) ==
    CASE device_type \in {"cisco_ios", "cisco_nxos", "arista_eos"} ->
             "show running-config"
      [] device_type \in {"huawei", "h3c", "hp_comware"} ->
             "display current-configuration"
      [] device_type = "juniper_junos" -> "show configuration"
      [] device_type = "fortinet" -> "show full-configuration"
      [] device_type = "paloalto_panos" -> "show configuration running"
      [] OTHER -> NoneVal

get_config_command(device_type) ==
    CASE device_type = "cisco_ios" -> "show running-config"
      [] device_type = "cisco_nxos" -> "show running-config"
      [] device_type = "huawei" -> "display current-configuration"
      [] device_type = "h3c" -> "display current-configuration"
      [] device_type = "hp_comware" -> "display current-configuration"
      [] device_type = "juniper_junos" -> "show configuration"
      [] device_type = "arista_eos" -> "show running-config"
      [] device_type = "fortinet" -> "show full-configuration"
      [] device_type = "paloalto_panos" -> "show configuration running"
      [] OTHER -> "show running-config"

\* conn_params: the copy of the device without 'description'
conn_params(device) ==
    [ip |-> device.ip, device_type |-> device.device_type,
     secret |-> device.secret]

\* mutant: the command of the caller is ignored
ResolveAlwaysDefault(input_command, device) ==
    get_config_command(conn_params(device).device_type)

\* the command get_switch_config sends
ResolveCommand(input_command, device) ==
    IF Truthy(input_command)
    THEN input_command
    ELSE get_config_command(conn_params(device).device_type)

\* mutant: get_switch_config without its last clause, `except Exception`
ExceptClauseNoGeneric(exc) ==
    CASE exc = "NetMikoTimeoutException" -> "Timeout"
      [] exc = "NetMikoAuthenticationException" -> "AuthFailure"
      [] OTHER -> "uncaught"

\* the except clause of get_switch_config that handles an exception class
ExceptClause(exc) ==
    CASE exc = "NetMikoTimeoutException" -> "Timeout"
      [] exc = "NetMikoAuthenticationException" -> "AuthFailure"
      [] exc = "KeyboardInterrupt" -> "uncaught"
      [] OTHER -> "Other"

(* ------------------------------ archive -------------------------------- *)
Dirs == {normal_path, other_dir}
Days == 0..Day(MaxTime)
FileNames == Hosts \X Days
FilePaths == Dirs \X FileNames

NoFile == [exists |-> FALSE, lines |-> <<>>]

\* line 144
Delimiter == "## --=========================================================--"

\* the three lines save_config_to_file writes
Block(op_time, command, config) ==
    << [kind |-> "header", when |-> op_time, text |-> command],
       [kind |-> "body", when |-> 0, text |-> config],
       [kind |-> "delimiter", when |-> 0,
        text |-> Delimiter] >>

\* mutant: the file is always opened with 'w'
OpenModeTruncate(file) == "w"

\* mode of open(): append when the file exists, create otherwise
OpenMode(file) == IF file.exists THEN "a" ELSE "w"

\* the file after open(mode) and the first `written` lines of the block
WriteLines(file, mode, block, written) ==
    [exists |-> TRUE,
     lines |-> (IF mode = "a" THEN file.lines ELSE <<>>)
               \o SubSeq(block, 1, written)]

(* ------------------------------- state --------------------------------- *)
VARIABLES
    devices,        \* the list main loaded
    dirs,           \* directories that exist
    archive,        \* FilePaths -> file
    now,            \* last value read from the clock, which never runs back
    pc,             \* where main / execute_other_command stands
    caller,         \* who called process_connection
    proceed,        \* last y/n answer, lower-cased
    loop_command,   \* execute_other_command's input_command
    input_command,  \* process_connection's input_command
    output_dir,     \* output_dir argument of the pass in flight
    idx,            \* position of the for loop of process_connection
    phase,          \* statement of the loop body about to run
    conn,           \* indices of the devices whose session is open
    command,        \* get_switch_config's local
    config,         \* the output get_switch_config returns
    logged,         \* the error kind get_switch_config logged
    success_count,
    outcomes,       \* per device: what was returned, logged and printed
    calls,          \* collaborator calls of the pass in flight, in order
    passes,         \* passes started from execute_other_command
    reported,       \* what print_log printed last
    uncaught        \* the exception that ended the program, if any

vars ==
    << devices, dirs, archive, now, pc, caller, proceed, loop_command,
       input_command, output_dir, idx, phase, conn, command, config, logged,
       success_count, outcomes, calls, passes, reported, uncaught >>

env == << devices, dirs, archive, now >>
\* the arguments of process_connection and who passed them
params == << caller, input_command, output_dir >>
\* the locals of main and execute_other_command
prompts == << proceed, loop_command >>
locals ==
    << idx, phase, conn, command, config, logged, success_count, outcomes,
       calls >>

NoReport == [success |-> 0, total |-> 0, dir |-> NoneVal]

\* sets of directories closed under "parent exists"
DirStates ==
    {{}, {ConfigStorage}, {ConfigStorage, normal_path},
     {ConfigStorage, other_dir}, {ConfigStorage, normal_path, other_dir}}

\* the state main starts in, but for the list the loader returns
InitRest ==
    /\ dirs \in DirStates
    /\ archive = [f \in FilePaths |-> NoFile]
    /\ now = 0
    /\ pc = "main"
    /\ caller = NoneVal
    /\ proceed = NoneVal
    /\ loop_command = NoneVal
    /\ input_command = NoneVal
    /\ output_dir = NoneVal
    /\ idx = 0
    /\ phase = "idle"
    /\ conn = {}
    /\ command = NoneVal
    /\ config = NoneVal
    /\ logged = NoneVal
    /\ success_count = 0
    /\ outcomes = <<>>
    /\ calls = <<>>
    /\ passes = 0
    /\ reported = NoReport
    /\ uncaught = NoneVal

Init == devices \in DeviceLists /\ InitRest

\* dialect identifiers: the keys of the table and two that are not in it
Dialects == KnownDialects \cup {"made_up_os", ""}

\* one-row inventories, one for every dialect, with and without a secret
DialectLists ==
    { << [ip |-> "10.0.0.1", device_type |-> d, secret |-> s,
          description |-> ""] >> : d \in Dialects, s \in {NoneVal, "enable"} }

InitDialects == devices \in DialectLists /\ InitRest

(* ------------------------------- main ---------------------------------- *)
\* mutant: main goes on with whatever list it loaded
NoDevicesNever(devs) == FALSE

\* main, line 242: `if not devices`
NoDevices(devs) == devs = <<>>

\* main, lines 240-249: load the devices, return when there are none
MainLoad ==
    /\ pc = "main"
    /\ pc' = IF NoDevices(devices) THEN "no_devices" ELSE "main_confirm"
    /\ UNCHANGED << env, params, prompts, locals, passes, reported,
                    uncaught >>

\* mutant: only the answer 'n' cancels
AffirmativeUnlessN(answer) == answer /= "n"

\* lines 220 and 253: `proceed != 'y'` cancels
Affirmative(answer) == answer = "y"

\* os.path.exists / os.mkdir of an archive directory: TRUE when the
\* directory exists afterwards
MkdirOk(dir) == dir \in dirs \/ ConfigStorage \in dirs

\* first statements of process_connection
StartPass(who, dir, cmd) ==
    /\ caller' = who
    /\ output_dir' = dir
    /\ input_command' = cmd
    /\ idx' = 1
    /\ phase' = "for"
    /\ conn' = {}
    /\ command' = NoneVal
    /\ config' = NoneVal
    /\ logged' = NoneVal
    /\ success_count' = 0
    /\ outcomes' = <<>>
    /\ calls' = <<>>

\* main, lines 252-262: the y/n prompt, the directory, the call of the pass
MainConfirm(answer) ==
    /\ pc = "main_confirm"
    /\ proceed' = Lower(answer)
    /\ IF ~Affirmative(proceed')
       THEN /\ pc' = "cancelled"
            /\ UNCHANGED << env, params, loop_command, locals, passes,
                            reported, uncaught >>
       ELSE IF ~MkdirOk(normal_path)
       THEN /\ pc' = "crashed"
            /\ uncaught' = "FileNotFoundError"
            /\ UNCHANGED << env, params, loop_command, locals, passes,
                            reported >>
       ELSE /\ pc' = "process_connection"
            /\ dirs' = dirs \cup {normal_path}
            /\ StartPass("main", normal_path, NoneVal)
            /\ UNCHANGED << devices, archive, now, loop_command, passes,
                            reported, uncaught >>

(* ------------------------ process_connection --------------------------- *)
Call(op) == [op |-> op, dev |-> idx]

\* an exception nobody in process_connection handles leaves the pass:
\* execute_other_command catches KeyboardInterrupt and breaks, anything
\* else ends the program
Propagate(exc) ==
    /\ IF caller = "execute_other_command" /\ exc = "KeyboardInterrupt"
       THEN pc' = "stopped" /\ UNCHANGED uncaught
       ELSE pc' = "crashed" /\ uncaught' = exc
    /\ idx' = 0
    /\ phase' = "idle"
    /\ command' = NoneVal
    /\ config' = NoneVal
    /\ logged' = NoneVal
    /\ success_count' = 0
    /\ outcomes' = <<>>
    /\ calls' = <<>>

\* mutant: the session is opened without a with statement
NoDisconnect(sessions, i) == sessions

\* __exit__ of the with statement of line 78: the session of device i is
\* disconnected
Disconnect(sessions, i) == sessions \ {i}

\* an exception of class exc is raised inside the try block of
\* get_switch_config, after the calls `made`: the with statement closes the
\* session if it is open, then the matching except clause logs and
\* (None, None) is returned
Raise(exc, made) ==
    /\ conn' = Disconnect(conn, idx)
    /\ IF ExceptClause(exc) = "uncaught"
       THEN Propagate(exc)
       ELSE /\ calls' = IF idx \in conn /\ idx \notin conn'
                        THEN Append(made, Call("close")) ELSE made
            /\ logged' = ExceptClause(exc)
            /\ command' = NoneVal
            /\ config' = NoneVal
            /\ phase' = "if_config"
            /\ UNCHANGED << pc, idx, success_count, outcomes, uncaught >>

\* mutant: conn.enable() is called for every device
AlwaysEnable(device) == TRUE

\* get_switch_config, line 80: `if conn_params.get('secret')`
NeedsEnable(device) == Truthy(conn_params(device).secret)

\* mutant: conn_params is the device itself, not a copy of it, so that
\* `del conn_params['description']` removes the field of the device
DeviceWithoutDescription(device) ==
    [ip |-> device.ip, device_type |-> device.device_type,
     secret |-> device.secret]

\* get_switch_config, lines 69-75: the device after conn_params was
\* derived from a copy of it
DeviceAfterCopy(device) == device

\* get_switch_config, lines 69-78: derive conn_params,
\* ConnectHandler(**conn_params)
Connect ==
    /\ pc = "process_connection"
    /\ phase = "for"
    /\ idx <= Len(devices)
    /\ LET made == Append(calls, Call("open")) IN
       \/ /\ conn' = conn \cup {idx}
          /\ calls' = made
          /\ phase' = IF NeedsEnable(devices[idx])
                      THEN "enable" ELSE "send_command"
          /\ UNCHANGED << pc, idx, command, config, logged, success_count,
                          outcomes, uncaught >>
       \/ \E exc \in ConnectErrors : Raise(exc, made)
    /\ devices' = [devices EXCEPT ![idx] = DeviceAfterCopy(devices[idx])]
    /\ UNCHANGED << dirs, archive, now, params, prompts, passes, reported >>

\* get_switch_config, lines 80-81: conn.enable()
Enable ==
    /\ pc = "process_connection"
    /\ phase = "enable"
    /\ LET made == Append(calls, Call("escalate")) IN
       \/ /\ calls' = made
          /\ phase' = "send_command"
          /\ UNCHANGED << pc, idx, conn, command, config, logged,
                          success_count, outcomes, uncaught >>
       \/ Raise("Exception", made)
    /\ UNCHANGED << env, params, prompts, passes, reported >>

\* get_switch_config, lines 84-86: resolve the command, conn.send_command
SendCommand ==
    /\ pc = "process_connection"
    /\ phase = "send_command"
    /\ LET made == Append(calls, Call("run")) IN
       \/ \E output \in Outputs :
             /\ command' = ResolveCommand(input_command, devices[idx])
             /\ config' = output
             /\ calls' = made
             /\ phase' = "with_exit"
             /\ UNCHANGED << pc, idx, conn, logged, success_count, outcomes,
                             uncaught >>
       \/ Raise("Exception", made)
    /\ UNCHANGED << env, params, prompts, passes, reported >>

\* get_switch_config, line 90: return out of the with statement, which
\* disconnects the session
WithExit ==
    /\ pc = "process_connection"
    /\ phase = "with_exit"
    /\ conn' = Disconnect(conn, idx)
    /\ calls' = IF idx \in conn /\ idx \notin conn'
                THEN Append(calls, Call("close")) ELSE calls
    /\ logged' = "none"
    /\ phase' = "if_config"
    /\ UNCHANGED << env, pc, params, prompts, idx, command, config,
                    success_count, outcomes, passes, reported, uncaught >>

(* ------------------------ save_config_to_file -------------------------- *)
\* results of the file operations of one save: open() raised; the
\* write of the config line raised after the header was written; or all
\* three write() calls took effect
SaveResults ==
    {[opened |-> FALSE, written |-> 0],
     [opened |-> TRUE, written |-> 1],
     [opened |-> TRUE, written |-> Len(Block(0, "", ""))]}

FilePath(ip, op_time, dir) == << dir, << ip, Day(op_time) >> >>

\* the archive after save_config_to_file(ip, command, config, output_dir)
\* read the clock as op_time and its file operations went as res
save_config_to_file(ip, cmd, cfg, dir, op_time, res) ==
    LET file_path == FilePath(ip, op_time, dir)
        file == archive[file_path]
    IN  IF res.opened
        THEN [archive EXCEPT ![file_path] =
                 WriteLines(file, OpenMode(file), Block(op_time, cmd, cfg),
                            res.written)]
        ELSE archive

\* what save_config_to_file returns: the path, or None from its except clause
SaveReturns(res) ==
    IF res.opened /\ res.written = Len(Block(0, "", ""))
    THEN "file_path" ELSE NoneVal

(* ------------------- process_connection, lines 176-187 ----------------- *)
Outcome(device, ok, saved) ==
    [device |-> device, command |-> command, config |-> config,
     errorKind |-> logged, ok |-> ok, saved |-> saved]

\* mutant: process_connection saves without testing config
ConfigAlways(cfg) == TRUE

\* mutant: process_connection tests `config is not None`
ConfigNotNone(cfg) == cfg /= NoneVal

\* the test `if config:` of process_connection
ConfigOk(cfg) == Truthy(cfg)

\* mutant: a device counts only when its save returned a path
TallyIfSaved(count, saved) == IF saved = NoneVal THEN count ELSE count + 1

\* line 179: success_count += 1, whatever save_config_to_file returned
Tally(count, saved) == count + 1

\* mutant: the loop breaks at the first device that fails
BreakOnFailure(i, ok) == IF ok THEN i + 1 ELSE Len(devices) + 1

\* mutant: a device that failed is tried again
RetryOnFailure(i, ok) == IF ok THEN i + 1 ELSE i

\* line 167: the loop goes on to the next device, whatever the result
NextIndex(i, ok) == i + 1

\* lines 176-182: save and count when get_switch_config returned a
\* config, print the failure otherwise; then on to the next device
Record ==
    /\ pc = "process_connection"
    /\ phase = "if_config"
    /\ IF ConfigOk(config)
       THEN \E op_time \in now..MaxTime, res \in SaveResults :
               /\ res.opened => output_dir \in dirs
               /\ now' = op_time
               /\ archive' =
                    save_config_to_file(devices[idx].ip, command, config,
                                        output_dir, op_time, res)
               /\ calls' = Append(calls, Call("save"))
               /\ success_count' = Tally(success_count, SaveReturns(res))
               /\ outcomes' =
                    Append(outcomes,
                           Outcome(devices[idx], TRUE, SaveReturns(res)))
       ELSE /\ outcomes' =
                 Append(outcomes, Outcome(devices[idx], FALSE, "not called"))
            /\ UNCHANGED << now, archive, calls, success_count >>
    /\ idx' = NextIndex(idx, ConfigOk(config))
    /\ phase' = "for"
    /\ command' = NoneVal
    /\ config' = NoneVal
    /\ logged' = NoneVal
    /\ UNCHANGED << devices, dirs, pc, params, prompts, conn, passes,
                    reported, uncaught >>

\* the for loop is exhausted: process_connection returns success_count
PassEnd ==
    /\ pc = "process_connection"
    /\ phase = "for"
    /\ idx > Len(devices)
    /\ pc' = "print_log"
    /\ phase' = "idle"
    /\ UNCHANGED << env, params, prompts, idx, conn, command, config,
                    logged, success_count, outcomes, calls, passes, reported,
                    uncaught >>

(* ------------------------------ print_log ------------------------------ *)
config_path(is_from_config_file) ==
    IF is_from_config_file THEN normal_path ELSE other_dir

\* print_log(success_count, devices, ...) as main (line 263) and
\* execute_other_command (line 232) call it; both go on to the command
\* prompt of execute_other_command
PrintLog ==
    /\ pc = "print_log"
    /\ reported' = [success |-> success_count, total |-> Len(devices),
                    dir |-> config_path(caller = "main")]
    /\ pc' = "await_command"
    /\ idx' = 0
    /\ success_count' = 0
    /\ outcomes' = <<>>
    /\ calls' = <<>>
    /\ UNCHANGED << env, params, prompts, phase, conn, command, config,
                    logged, passes, uncaught >>

(* ----------------------- execute_other_command ------------------------- *)
\* mutant: the loop tests for another word
IsSentinelQuit(line) == line = "quit"

\* line 214: the test for the sentinel
IsSentinel(line) == line = "exit"

\* lines 213-216: read the command, leave the loop on 'exit'
ReadCommand(line) ==
    /\ pc = "await_command"
    /\ loop_command' = line
    /\ pc' = IF IsSentinel(line) THEN "stopped" ELSE "await_confirm"
    /\ UNCHANGED << env, params, proceed, locals, passes, reported,
                    uncaught >>

\* lines 219-231: the y/n prompt, the directory, the call of the pass
ReadConfirm(answer) ==
    /\ pc = "await_confirm"
    /\ proceed' = Lower(answer)
    /\ IF ~Affirmative(proceed')
       THEN /\ pc' = "stopped"
            /\ UNCHANGED << env, params, loop_command, locals, passes,
                            reported, uncaught >>
       ELSE IF ~MkdirOk(other_dir)
       THEN /\ pc' = "crashed"
            /\ uncaught' = "FileNotFoundError"
            /\ UNCHANGED << env, params, loop_command, locals, passes,
                            reported >>
       ELSE /\ passes < MaxPasses
            /\ pc' = "process_connection"
            /\ dirs' = dirs \cup {other_dir}
            /\ passes' = passes + 1
            /\ StartPass("execute_other_command", other_dir, loop_command)
            /\ UNCHANGED << devices, archive, now, loop_command, reported,
                            uncaught >>

(* --------------------------- KeyboardInterrupt ------------------------- *)
\* Ctrl-C at a prompt or during a pass: execute_other_command catches it
\* and breaks (lines 233-235), main does not
KeyboardInterrupt ==
    /\ pc \in {"main_confirm", "process_connection", "await_command",
               "await_confirm"}
    /\ IF pc = "process_connection"
       THEN Raise("KeyboardInterrupt", calls)
       ELSE /\ IF pc = "main_confirm"
               THEN pc' = "crashed" /\ uncaught' = "KeyboardInterrupt"
               ELSE pc' = "stopped" /\ UNCHANGED uncaught
            /\ UNCHANGED locals
    /\ UNCHANGED << env, params, prompts, passes, reported >>

(* ---------------------------- specification ---------------------------- *)
Next ==
    \/ MainLoad
    \/ \E answer \in ConfirmInputs : MainConfirm(answer)
    \/ Connect
    \/ Enable
    \/ SendCommand
    \/ WithExit
    \/ Record
    \/ PassEnd
    \/ PrintLog
    \/ \E line \in CommandInputs : ReadCommand(line)
    \/ \E answer \in ConfirmInputs : ReadConfirm(answer)
    \/ KeyboardInterrupt

Spec == Init /\ [][Next]_vars

\* the program run on a one-row inventory of any dialect
SpecDialects == InitDialects /\ [][Next]_vars

(* ------------------------ helpers of the claims ------------------------ *)
\* the calls of the pass in flight made for device i, in order
CallsOf(i) ==
    LET RECURSIVE ops(_)
        ops(k) ==
            IF k = 0 THEN <<>>
            ELSE IF calls[k].dev = i
                 THEN Append(ops(k - 1), calls[k].op)
                 ELSE ops(k - 1)
    IN  ops(Len(calls))

Called(op, i) == \E k \in 1..Len(calls) : calls[k] = [op |-> op, dev |-> i]

InPass == pc = "process_connection"
\* process_connection has returned and print_log has not yet run
PassReturned == pc = "print_log"
FromLoop == caller = "execute_other_command"

ErrorKinds == {"Timeout", "AuthFailure", "Other"}
OutputSet(o) == o.config /= NoneVal
ErrorKindSet(o) == o.errorKind \in ErrorKinds

(* ------------------------------- C1 ------------------------------------ *)
\* C1: a pass that returns has produced exactly one outcome per device of
\* the list, and the i-th outcome is the outcome of the i-th device; while
\* the pass runs, the outcomes produced so far are those of the devices
\* before the current one, in list order.
C1_OneOutcomePerDeviceInOrder ==
    /\ PassReturned =>
          /\ Len(outcomes) = Len(devices)
          /\ \A i \in 1..Len(devices) : outcomes[i].device = devices[i]
    /\ InPass =>
          /\ Len(outcomes) = idx - 1
          /\ \A i \in 1..Len(outcomes) : outcomes[i].device = devices[i]

\* a pass over two different devices has returned, the first failed and
\* the second succeeded
C1_Witness ==
    /\ PassReturned
    /\ Len(devices) = 2
    /\ devices[1] /= devices[2]
    /\ ~outcomes[1].ok
    /\ outcomes[2].ok

(* ------------------------------- C2 ------------------------------------ *)
\* C2: no exception of a device's connect, enable, send_command or archive
\* write leaves the pass (the only exceptions that end the program are
\* KeyboardInterrupt and the FileNotFoundError of os.mkdir); every device
\* before the current one has been opened, and a pass that returns has
\* opened every device of the list, the ones after a failed device
\* included.
C2_NoDeviceErrorAbortsPass ==
    /\ uncaught \in {NoneVal, "KeyboardInterrupt", "FileNotFoundError"}
    /\ InPass /\ phase = "for" => \A i \in 1..(idx - 1) : Called("open", i)
    /\ PassReturned => \A i \in 1..Len(devices) : Called("open", i)

\* the first device failed in send_command, the second was still opened
\* (and failed authentication), and the pass returned
C2_Witness ==
    /\ PassReturned
    /\ Len(devices) = 2
    /\ outcomes[1].errorKind = "Other"
    /\ Called("run", 1)
    /\ Called("open", 2)
    /\ outcomes[2].errorKind = "AuthFailure"

(* ------------------------------- C3 ------------------------------------ *)
\* C3: for every outcome exactly one of output and errorKind is set; the
\* output is set iff the device is reported as a success, the error kind
\* iff it is reported as a failure.
C3_ExactlyOneOfOutputAndError ==
    \A i \in 1..Len(outcomes) :
        LET o == outcomes[i] IN
        /\ OutputSet(o) /= ErrorKindSet(o)
        /\ OutputSet(o) <=> o.ok
        /\ ErrorKindSet(o) <=> ~o.ok

(* ------------------------------- C4 ------------------------------------ *)
\* C4: when a pass returns, success_count is the number of devices whose
\* open, enable (when required) and send_command all completed without
\* error, and the total is the length of the device list.
C4_SuccessCountCountsCompletedDevices ==
    PassReturned =>
        /\ success_count =
              Cardinality({ i \in 1..Len(outcomes) :
                            outcomes[i].errorKind = "none" })
        /\ Len(outcomes) = Len(devices)

(* ------------------------------- C5 ------------------------------------ *)
\* C5: for a device whose ConnectHandler raised the timeout exception, the
\* only call of the pass is that open: no enable, no send_command, no
\* save_config_to_file, neither before nor after its outcome is recorded.
C5_TimeoutSkipsEscalateRunSave ==
    /\ \A i \in 1..Len(outcomes) :
          outcomes[i].errorKind = "Timeout" => CallsOf(i) = << "open" >>
    /\ InPass /\ logged = "Timeout" => CallsOf(idx) = << "open" >>

\* a device with a secret timed out at open, and the pass went on to
\* collect and save the next device
C5_Witness ==
    /\ PassReturned
    /\ Len(devices) = 2
    /\ Truthy(devices[1].secret)
    /\ outcomes[1].errorKind = "Timeout"
    /\ Called("save", 2)

(* ------------------------------- C6 ------------------------------------ *)
\* C6: no session is open outside the with statement: none between two
\* devices, none when get_switch_config has returned, none after the pass
\* or after the program stopped; the only session ever open is the one of
\* the current device; and for every device whose session was opened the
\* close comes after its other session calls and before its save.
C6_SessionsAlwaysClosed ==
    /\ conn \subseteq {idx}
    /\ (~InPass \/ phase \in {"for", "if_config"}) => conn = {}
    /\ \A i \in 1..Len(outcomes) :
          LET c == CallsOf(i) IN
          Len(c) >= 2 =>
              \E k \in 2..Len(c) :
                  /\ c[k] = "close"
                  /\ \A j \in 1..Len(c) :
                        /\ j < k => c[j] \in {"open", "escalate", "run"}
                        /\ j > k => c[j] = "save"

\* the session of the first device was closed after enable failed, the
\* one of the second after send_command failed
C6_Witness ==
    /\ PassReturned
    /\ Len(devices) = 2
    /\ CallsOf(1) = << "open", "escalate", "close" >>
    /\ CallsOf(2) = << "open", "escalate", "run", "close" >>
    /\ conn = {}

(* ------------------------------- C7 ------------------------------------ *)
\* C7: a device whose save_config_to_file failed (returned None) is still
\* reported as a success with no error kind, success_count counts every
\* device reported as a success, and the pass still opens the devices
\* after it.
C7_PersistFailureKeepsSuccess ==
    /\ \A i \in 1..Len(outcomes) :
          outcomes[i].saved = NoneVal =>
              outcomes[i].ok /\ ~ErrorKindSet(outcomes[i])
    /\ (InPass \/ PassReturned) =>
          success_count =
              Cardinality({ i \in 1..Len(outcomes) : outcomes[i].ok })
    /\ PassReturned => \A i \in 1..Len(devices) : Called("open", i)

\* the save of the first device failed, the second device was collected
\* and saved, and both count
C7_Witness ==
    /\ PassReturned
    /\ Len(devices) = 2
    /\ outcomes[1].saved = NoneVal
    /\ outcomes[2].saved = "file_path"
    /\ success_count = 2

(* ------------------------------- C8 ------------------------------------ *)
Headers(lines) ==
    SelectSeq(lines, LAMBDA l : l.kind = "header")

\* the headers of every archive file are in the order of their timestamps
Chronological ==
    \A f \in FilePaths :
        LET h == Headers(archive[f].lines) IN
        \A i, j \in 1..Len(h) : i < j => h[i].when <= h[j].when

\* a step never removes a file nor changes what a file already holds, and
\* a save that returns a path leaves its file as it was, followed by one
\* header + body + delimiter block
AppendOnlyStep ==
    /\ \A f \in FilePaths :
          /\ archive[f].exists => archive'[f].exists
          /\ Len(archive'[f].lines) >= Len(archive[f].lines)
          /\ SubSeq(archive'[f].lines, 1, Len(archive[f].lines))
                = archive[f].lines
    /\ (/\ Len(outcomes') = Len(outcomes) + 1
        /\ outcomes'[Len(outcomes')].saved = "file_path") =>
          LET f == FilePath(devices[idx].ip, now', output_dir) IN
          /\ archive'[f].lines =
                archive[f].lines \o Block(now', command, config)
          /\ \A g \in FilePaths \ {f} : archive'[g] = archive[g]

\* C8: the archive is append-only: no step removes a file or changes the
\* lines a file already holds, every successful save leaves its (host,
\* day) file as the previous content followed by exactly one new block,
\* and the blocks of a file are in chronological order.
C8_ArchiveAppendOnly == []Chronological /\ [][AppendOnlyStep]_vars

\* a file holds two complete blocks of the same host and day, the second
\* written later than the first
C8_Witness ==
    \E f \in FilePaths :
        LET l == archive[f].lines IN
        /\ Len(l) = 6
        /\ l[1].kind = "header" /\ l[3].kind = "delimiter"
        /\ l[4].kind = "header" /\ l[6].kind = "delimiter"
        /\ l[1].when < l[4].when

(* ------------------------------- C9 ------------------------------------ *)
\* C9: once the loop has read "exit" the program is stopped with no pass
\* started by that input; once a y/n prompt has read anything but an
\* affirmative answer the program is cancelled or stopped; a pass called
\* from the loop runs only under a command other than "exit" and an
\* affirmative answer; and in Stopped no step is possible.
C9_ExitAndRefusalStopWithoutPass ==
    /\ loop_command = "exit" =>
          pc = "stopped" /\ phase = "idle" /\ calls = <<>> /\ conn = {}
    /\ proceed \notin {NoneVal, "y"} =>
          /\ pc \in {"cancelled", "stopped"}
          /\ phase = "idle" /\ calls = <<>> /\ conn = {}
    /\ (InPass \/ PassReturned) /\ FromLoop =>
          loop_command /= "exit" /\ proceed = "y"
    /\ pc = "stopped" => ~ENABLED Next

\* after one pass of the loop the operator typed exit
C9_Witness ==
    /\ pc = "stopped"
    /\ loop_command = "exit"
    /\ passes = 1
    /\ reported.dir = other_dir

(* ------------------------------- C10 ----------------------------------- *)
NormalFiles == { f \in FilePaths : f[1] = normal_path }

\* the step that starts a pass of the loop
StartsLoopPass ==
    /\ pc' = "process_connection"
    /\ caller' = "execute_other_command"
    /\ passes' = passes + 1
    /\ devices' = devices
    /\ input_command' = loop_command
    /\ output_dir' = other_dir
    /\ idx' = 1 /\ outcomes' = <<>> /\ calls' = <<>>

\* in AwaitingConfirmation, reading an affirmative answer can do nothing
\* but start a pass of the loop, and does so while passes remain
AffirmativeStartsPass ==
    pc = "await_confirm" =>
        \A answer \in {"y", "Y"} :
            /\ ~ENABLED (ReadConfirm(answer) /\ ~StartsLoopPass)
            /\ passes < MaxPasses => ENABLED ReadConfirm(answer)

\* what a step of the loop does around a pass
LoopPassStep ==
    /\ (pc = "await_confirm" /\ pc' /= "stopped") => StartsLoopPass
    /\ (pc = "await_confirm" /\ pc' = "stopped") =>
          passes' = passes /\ archive' = archive /\ calls' = calls
    /\ (FromLoop /\ (InPass \/ PassReturned)) =>
          /\ devices' = devices
          /\ passes' = passes
          /\ input_command' = input_command
          /\ output_dir' = output_dir
          /\ \A f \in NormalFiles : archive'[f] = archive[f]
    /\ (FromLoop /\ PassReturned) =>
          /\ pc' = "await_command"
          /\ reported' = [success |-> success_count, total |-> Len(devices),
                          dir |-> other_dir]

\* C10: an affirmative answer in AwaitingConfirmation starts exactly one
\* pass, over the same device list, with the command read in
\* AwaitingCommand and the ad-hoc directory as output_dir; that pass
\* changes no file of the directory of the normal pass; when it returns
\* its result is reported and the loop is back in AwaitingCommand.
C10_AffirmativeRunsOneAdHocPass ==
    []AffirmativeStartsPass /\ [][LoopPassStep]_vars

\* a pass of the loop has saved a device under the ad-hoc directory,
\* reported it, and the loop awaits the next command
C10_Witness ==
    /\ pc = "await_command"
    /\ passes = 1
    /\ loop_command = "show version"
    /\ reported.dir = other_dir
    /\ reported.success >= 1
    /\ \E f \in FilePaths \ NormalFiles :
          /\ Len(archive[f].lines) >= 3
          /\ archive[f].lines[1].text = "show version"

(* ------------------------------- C11 ----------------------------------- *)
\* C11: with an empty device list main returns at once: the program is
\* at its start or has declined, no pass and no loop was entered, no
\* session was opened, no directory or file was made, no prompt was read
\* and no exception ended the program.
C11_EmptyListDeclinesToRun ==
    devices = <<>> =>
        /\ pc \in {"main", "no_devices"}
        /\ caller = NoneVal /\ passes = 0 /\ phase = "idle" /\ idx = 0
        /\ conn = {} /\ calls = <<>> /\ outcomes = <<>>
        /\ \A f \in FilePaths : archive[f] = NoFile
        /\ proceed = NoneVal /\ loop_command = NoneVal
        /\ reported = NoReport
        /\ uncaught = NoneVal
        /\ pc = "no_devices" => ~ENABLED Next

\* main has declined to run on an empty list
C11_Witness == devices = <<>> /\ pc = "no_devices"

(* ------------------------------- C12 ----------------------------------- *)
\* C12: whenever get_switch_config resolved the command of a device
\* without a command of the caller, for a known or an unknown dialect,
\* the result is a command (a non-empty string), and for a dialect that
\* is not a key of the table it is the fallback "show running-config".
C12_ResolverTotalWithFallback ==
    (InPass /\ phase = "with_exit" /\ ~Truthy(input_command)) =>
        LET dialect == devices[idx].device_type IN
        /\ command = get_config_command(dialect)
        /\ Truthy(command)
        /\ dialect \notin KnownDialects => command = "show running-config"

\* the command of a device of dialect made_up_os was resolved
C12_Witness ==
    /\ InPass /\ phase = "with_exit"
    /\ input_command = NoneVal
    /\ devices[idx].device_type = "made_up_os"
    /\ command = "show running-config"

(* ------------------------------- C13 ----------------------------------- *)
\* the caller passed a command of its own (main passes none; the loop passes
\* the line it read, and an empty line is no command)
Supplied == Truthy(input_command)

ExpectedCommand(device) ==
    IF Supplied
    THEN input_command
    ELSE get_config_command(device.device_type)

\* the command sent to the device in hand, and the command of every device
\* that returned from send_command, is the expected one
CommandAsResolved ==
    /\ (InPass /\ (phase = "with_exit" \/ logged = "none")) =>
          command = ExpectedCommand(devices[idx])
    /\ \A i \in 1..Len(outcomes) :
          outcomes[i].errorKind = "none" =>
              outcomes[i].command = ExpectedCommand(outcomes[i].device)

\* a step that adds a header to a file is the save of the device in hand,
\* in the file of its host, and the header names the command sent to it
HeaderCarriesCommand ==
    \A f \in FilePaths :
        LET h == Headers(archive'[f].lines) IN
        Len(h) > Len(Headers(archive[f].lines)) =>
            /\ InPass /\ phase = "if_config"
            /\ f[1] = output_dir
            /\ f[2][1] = devices[idx].ip
            /\ h[Len(h)].text = command
            /\ command = ExpectedCommand(devices[idx])

Count(op, i) ==
    Cardinality({ k \in 1..Len(calls) : calls[k] = [op |-> op, dev |-> i] })

\* send_command of the recorded device i returned a non-empty text
ReturnedOutput(i) ==
    outcomes[i].errorKind = "none" /\ outcomes[i].config \notin {NoneVal, ""}

\* save_config_to_file was called for exactly the recorded devices whose
\* send_command returned a non-empty text, once each, and not yet for the
\* device in hand
SavedIffOutput ==
    /\ \A i \in 1..Len(outcomes) :
          /\ Called("save", i) <=> ReturnedOutput(i)
          /\ (outcomes[i].saved /= "not called") <=> ReturnedOutput(i)
    /\ \A i \in 1..Len(devices) : Count("save", i) <= 1
    /\ InPass => \A i \in idx..Len(devices) : ~Called("save", i)

\* the step that calls save_config_to_file is the one of the device in
\* hand, after its send_command returned a non-empty text, and it touches
\* nothing but the file of that device's host in the pass's directory, to
\* which it adds a prefix of the block made of the command sent and the
\* text returned
SaveCarriesTriple ==
    Len(calls') > Len(calls) /\ calls'[Len(calls')].op = "save" =>
        LET f == FilePath(devices[idx].ip, now', output_dir)
            block == Block(now', command, config)
        IN  /\ InPass /\ phase = "if_config"
            /\ calls' = Append(calls, Call("save"))
            /\ logged = "none" /\ config \notin {NoneVal, ""}
            /\ CallsOf(idx)[Len(CallsOf(idx)) - 1] = "run"
            /\ \E written \in 0..Len(block) :
                  archive'[f].lines =
                      archive[f].lines \o SubSeq(block, 1, written)
            /\ \A g \in FilePaths \ {f} : archive'[g] = archive[g]

\* C14: in a pass save_config_to_file is called for a device if and only
\* if the device's send_command returned a non-empty text, at most once
\* per device, and with that device's ip, the command sent to it and the
\* text it returned.
C14_SaveIffNonEmptyOutput == []SavedIffOutput /\ [][SaveCarriesTriple]_vars

\* of two devices whose send_command returned, the first returned the
\* empty text and was not saved, the second returned a config and was
C14_Witness ==
    /\ PassReturned
    /\ Len(outcomes) = 2
    /\ outcomes[1].errorKind = "none" /\ outcomes[1].config = ""
    /\ ~Called("save", 1)
    /\ outcomes[2].config = "cfg"
    /\ Count("save", 2) = 1
    /\ outcomes[2].saved = "file_path"

(* ------------------------------- C15 ----------------------------------- *)
\* the device's secret is set
SecretSet(device) == device.secret \notin {NoneVal, ""}

\* the calls a pass can have made for one device, in order, with and
\* without conn.enable()
CallsWithEnable ==
    { << "open" >>,
      << "open", "escalate" >>,
      << "open", "escalate", "close" >>,
      << "open", "escalate", "run" >>,
      << "open", "escalate", "run", "close" >>,
      << "open", "escalate", "run", "close", "save" >> }

CallsWithoutEnable ==
    { << "open" >>,
      << "open", "run" >>,
      << "open", "run", "close" >>,
      << "open", "run", "close", "save" >> }

Rank(op) ==
    CASE op = "open" -> 1
      [] op = "escalate" -> 2
      [] op = "run" -> 3
      [] op = "close" -> 4
      [] op = "save" -> 5

\* a session of device i was opened: enable or send_command was called on
\* it, or it is still open
Opened(i) == Called("escalate", i) \/ Called("run", i) \/ i \in conn

\* C16: a pass handles its devices one at a time in the order open,
\* escalate, run, close, persist: at most one session is open at any
\* moment and it is the session of the device in hand; the calls of the
\* pass are grouped by device in list order and ordered by phase within a
\* device; and when the next device is about to be opened every session
\* opened before is closed and every earlier device has been saved or
\* reported and recorded.
C16_OneDeviceAtATime ==
    /\ Cardinality(conn) <= 1
    /\ conn \subseteq {idx}
    /\ conn /= {} =>
          InPass /\ phase \in {"enable", "send_command", "with_exit"}
    /\ \A j, k \in 1..Len(calls) :
          j < k =>
             \/ calls[j].dev < calls[k].dev
             \/ /\ calls[j].dev = calls[k].dev
                /\ Rank(calls[j].op) < Rank(calls[k].op)
    /\ \A k \in 1..Len(calls) :
          calls[k].dev \in 1..Len(devices) /\ calls[k].dev <= idx
    /\ \A k \in 1..Len(calls) :
          \A i \in 1..(calls[k].dev - 1) :
             /\ Opened(i) => Called("close", i)
             /\ i <= Len(outcomes)
             /\ ReturnedOutput(i) => Called("save", i)
    /\ (InPass /\ phase = "for") =>
          /\ conn = {}
          /\ Len(outcomes) = idx - 1
          /\ \A i \in 1..(idx - 1) : Opened(i) => Called("close", i)

\* the second device's session is open while the first device has been
\* opened, escalated, run, closed and saved
C16_Witness ==
    /\ InPass
    /\ idx = 2
    /\ conn = {2}
    /\ CallsOf(1) = << "open", "escalate", "run", "close", "save" >>
    /\ CallsOf(2) = << "open" >>

(* ------------------------------- C17 ----------------------------------- *)
\* C17: nothing is tried twice in a pass: ConnectHandler is called at most
\* once for every entry of the list, exactly once for every entry the loop
\* has passed (for every entry when the pass returns), and send_command at
\* most once, whether the device succeeded or failed.
C17_NoRetryWithinPass ==
    /\ \A i \in 1..Len(devices) :
          /\ Count("open", i) <= 1
          /\ Count("run", i) <= 1
          /\ Count("escalate", i) <= 1
    /\ \A i \in 1..Len(outcomes) : Count("open", i) = 1
    /\ PassReturned =>
          /\ Len(outcomes) = Len(devices)
          /\ \A i \in 1..Len(devices) : Count("open", i) = 1
    /\ InPass => \A i \in (idx + 1)..Len(devices) : Count("open", i) = 0

\* the first device failed at ConnectHandler and the second at
\* send_command; each was opened once and the pass returned
C17_Witness ==
    /\ PassReturned
    /\ Len(devices) = 2
    /\ outcomes[1].errorKind = "AuthFailure"
    /\ Count("open", 1) = 1 /\ Count("run", 1) = 0
    /\ outcomes[2].errorKind = "Other"
    /\ Count("open", 2) = 1 /\ Count("run", 2) = 1

(* ------------------------------- C18 ----------------------------------- *)
\* the list is a list of rows as the loader returned them, description
\* included
LoadedList ==
    /\ devices \in DeviceLists
    /\ \A i \in 1..Len(devices) :
          DOMAIN devices[i] = {"ip", "device_type", "secret", "description"}

\* no step changes the list: same length, same entries in the same order,
\* same fields
ListUnchanged ==
    /\ devices' = devices
    /\ Len(devices') = Len(devices)
    /\ \A i \in 1..Len(devices) :
          /\ DOMAIN devices'[i] = DOMAIN devices[i]
          /\ devices'[i].description = devices[i].description

\* C18: a pass leaves the list main loaded and every device in it as they
\* were: get_switch_config works on a copy, so the description it deletes
\* from the connection parameters stays in the device, and the passes of
\* the loop run on the list the first pass ran on.
C18_PassLeavesDevicesUnchanged == []LoadedList /\ [][ListUnchanged]_vars

\* a pass of the loop, the second pass over the list, has opened a device
\* that still carries its description
C18_Witness ==
    /\ FromLoop
    /\ PassReturned
    /\ passes = 1
    /\ \E i \in 1..Len(devices) :
          /\ Called("open", i)
          /\ "description" \in DOMAIN devices[i]
          /\ devices[i].description = "core"

(* ------------------------------- C19 ----------------------------------- *)
\* C19: the loop asks for confirmation only after it read a line that is
\* neither empty nor "exit", and every command sent to a device in a pass
\* called from the loop is the line the operator entered, never the
\* command of get_config_command.
C19_LoopRunsOnlyEnteredCommand ==
    /\ pc = "await_confirm" => loop_command \notin {NoneVal, "", "exit"}
    /\ (InPass /\ FromLoop) => input_command \notin {NoneVal, "", "exit"}
    /\ (InPass /\ FromLoop /\ (phase = "with_exit" \/ logged = "none")) =>
          command = loop_command
    /\ FromLoop =>
          \A i \in 1..Len(outcomes) :
             outcomes[i].errorKind = "none" =>
                 outcomes[i].command = loop_command

(* ------------------------------- C20 ----------------------------------- *)
\* a step that enters process_connection
PassStart == pc /= "process_connection" /\ pc' = "process_connection"

\* a pass is entered only by the step that read "y" (in either case) at
\* the y/n prompt of its caller, and a pass in flight is never started over
ConfirmedStart ==
    /\ PassStart =>
          /\ pc \in {"main_confirm", "await_confirm"}
          /\ proceed' = "y"
          /\ caller' = IF pc = "main_confirm"
                       THEN "main" ELSE "execute_other_command"
          /\ passes' = IF pc = "main_confirm" THEN passes ELSE passes + 1
          /\ idx' = 1 /\ calls' = << >> /\ outcomes' = << >>
    /\ (InPass /\ pc' = "process_connection") =>
          /\ idx' >= idx
          /\ << caller', input_command', output_dir', passes' >>
                = << caller, input_command, output_dir, passes >>

\* at either prompt no answer but "y" or "Y" can start a pass, and after a
\* pass has returned the only way on is the command prompt
NoPassWithoutYes ==
    /\ \A answer \in ConfirmInputs \ {"y", "Y"} :
          /\ ~ENABLED (MainConfirm(answer) /\ pc' = "process_connection")
          /\ ~ENABLED (ReadConfirm(answer) /\ pc' = "process_connection")
    /\ pc \in {"print_log", "await_command"} =>
          ~ENABLED (Next /\ pc' = "process_connection")

\* C20: no pass starts without an affirmative answer read by the very step
\* that starts it: the pass of main follows main's prompt, every pass of
\* the loop follows the loop's own prompt, and once a pass has returned
\* another one needs another answer.
C20_EveryPassConfirmed == []NoPassWithoutYes /\ [][ConfirmedStart]_vars

\* a pass of the loop is in flight after the pass of main was confirmed,
\* run and reported
C20_Witness ==
    /\ InPass
    /\ FromLoop
    /\ proceed = "y"
    /\ passes = 1
    /\ reported /= NoReport
    /\ reported.dir = normal_path
====
